---- MODULE Spec2Model ----
(***************************************************************************)
(* FightHistoryManager (src/unnamed/part_000) as a state machine: the      *)
(* encounter store, the current-encounter pointer, the cumulative          *)
(* counters, the coordination lock with the startNewFight invocations      *)
(* suspended on it, the clock, the persisted history file, the            *)
(* notifications handed to the socket, and the answers of the HTTP routes  *)
(* of src/unnamed/part_001 that read or configure the manager.             *)
(*                                                                         *)
(* startNewFight is an async function: the call itself runs up to          *)
(* `await this.fightLock.acquire()` inside the caller (recordActivity,     *)
(* forceStartNewFight); everything after the await runs later, as a        *)
(* continuation.  The model therefore splits it in two steps: the          *)
(* invocation (part of the caller's action) and startNewFightResume.       *)
(***************************************************************************)
EXTENDS Integers, Sequences, FiniteSets, TLC

----------------------------------------------------------------------------
(* Bounds of the model and input sets *)

\* Timestamps handed to recordActivity.  With the default timeout W = 15000,
\* 15001 = 1 + W and 15002 = 1 + W + 1 are the two sides of the boundary after
\* an activity at T = 1, and 15001 = 0 + W + 1 is past the boundary counted
\* from lastActivityTime = 0.
Stamps == {1, 15001, 15002}

\* Timestamps handed to forceStartNewFight.
ForceStamps == {1, 15002}

\* Times handed to checkForInactivity: the two sides of the boundary after an
\* activity at 1.
WatchdogStamps == {15001, 15002}

\* Readings of Date.now().
Clock == {0, 15002}

\* The activities (kind, value) handed to recordActivity.
Activities == {<<"damage", 100>>, <<"damage", 50>>, <<"healing", 30>>}

\* Timestamps and activities of the runs that save and load the history file.
PersistStamps == {1, 15002}

PersistActivities == {<<"damage", 100>>}

\* The participant maps handed to saveUserDataSnapshot: uid -> the summary
\* user.getSummary() returns, with numeric totals or with totals that arrive
\* as text.
UserData == { [u \in {1} |-> "numericSummary"],
              [u \in {1, 2} |-> IF u = 1 THEN "numericSummary" ELSE "textSummary"] }

\* The times at which the watchdog looks in those runs.
PersistWatchdog == {15002}

\* Timestamps of the runs in which the history file is lost or damaged.
RecoveryStamps == {1}

\* The `timeout` field of the bodies posted to /fight/timeout: a JSON number on
\* either side of each end of the accepted range, the two values of the
\* scenario (3000, 100000), and a number sent as text.
TimeoutRequests == { <<"number", 3000>>, <<"number", 4999>>, <<"number", 5000>>,
                     <<"number", 60000>>, <<"number", 60001>>, <<"number", 100000>>,
                     <<"string", "10000">> }

\* Timestamps, activities and watchdog times of the runs that change the timeout.
ConfigStamps == {1, 15002}

ConfigActivities == {<<"damage", 100>>}

ConfigWatchdog == {15002}

\* Inputs of the runs that query the store: activity timestamps, activities,
\* the timestamp of a forced start (between the two, so that encounters are
\* not created in timestamp order), the time the watchdog looks at (beyond
\* 15002 + 15000), and the ids asked for (fight_2 is never created).
QueryStamps == {1, 15002}

QueryActivities == {<<"damage", 100>>}

QueryForceStamps == {15001}

QueryWatchdog == {30003}

QueryIds == {<<"fight_", 1>>, <<"fight_", 15001>>, <<"fight_", 2>>}

\* Inputs of the runs that exercise the value of an activity: the value is
\* whatever number the caller passes, zero and negative numbers included.
ValueStamps == {1, 15002}

ValueActivities == {<<"damage", 100>>, <<"damage", 0>>, <<"damage", -40>>,
                    <<"healing", 30>>, <<"healing", -30>>}

ValueWatchdog == {15002}

\* Inputs of the runs that exercise the coordination lock: forceStartNewFight
\* is also called with a timestamp that no Date can hold.
LockStamps == {1, 15002}

LockActivities == {<<"damage", 100>>}

LockForceStamps == {15002, 100000001}

\* Inputs of the runs in which the timer keeps calling the watchdog: its
\* currentTime grows up to WatchdogHorizon, which lies more than the timeout
\* after every timestamp of an activity.
TimerStamps == {1, 15002}

TimerActivities == {<<"damage", 100>>}

TimerForceStamps == {15002}

WatchdogHorizon == 30003

TimerTimes == {15002, WatchdogHorizon}

\* Inputs of the runs in which the notifications are delivered.
NotifyStamps == {1}

NotifyActivities == {<<"damage", 100>>}

NotifyForceStamps == {15002}

NotifyWatchdog == {15002}

\* Inputs of the runs that end with clearHistory.
ClearStamps == {1, 15002}

ClearActivities == {<<"damage", 100>>}

ClearForceStamps == {15002}

\* startNewFight invocations suspended at the same time.
MaxPending == 2

\* Calls of the manager's operations in one run.
MaxOps == 4

\* Saturation of the ghost counter of folds per encounter id.
MaxFolds == 2

----------------------------------------------------------------------------
(* Values *)

\* `fight_${timestamp}`: the id is the text "fight_" followed by the timestamp.
FightId(timestamp) == <<"fight_", timestamp>>

\* this.currentFightId = null
NoFight == <<>>

\* null in a numeric field (endTime: null, currentFightStartTime = null)
NullTime == -1

\* this.fightTimeout = 15000
DefaultFightTimeout == 15000

\* userStats: new Map()
EmptyMap == [kind |-> "Map", entries |-> <<>>]

\* the fight record startNewFight stores
NewFight(timestamp) ==
    [ id           |-> FightId(timestamp),
      startTime    |-> timestamp,
      endTime      |-> NullTime,
      duration     |-> 0,
      totalDamage  |-> 0,
      totalHealing |-> 0,
      userStats    |-> EmptyMap,
      isActive     |-> TRUE ]

\* the cumulativeStats object of the constructor and of clearHistory
ZeroStats(clock) ==
    [ totalDamage   |-> 0,
      totalHealing  |-> 0,
      totalFights   |-> 0,
      totalDuration |-> 0,
      startTime     |-> clock ]

\* new Date(timestamp).toISOString(), line 88, throws a RangeError when the
\* time value is outside the range of a Date (8.64e15 ms either side of the
\* epoch).  The limit is scaled down to the integers of the checker; it stays
\* far above every other timestamp of the inputs.
DateLimit == 100000000

ValidDate(timestamp) == timestamp >= -DateLimit /\ timestamp <= DateLimit

\* emitNewFightEvent, lines 100-112: the callback handed to import().then.  It
\* reads this.currentFightId and this.currentFightStartTime when it runs;
\* `cause` is a ghost field, the encounter whose creation queued it.
NewFightEvent(id) == [event |-> "new_fight_started", cause |-> id]

\* emitFightEndedEvent, lines 416-425: socket.emit('fight_ended') carries no
\* payload; `cause` is a ghost field, the encounter that was finalized.
FightEndedEvent(id) == [event |-> "fight_ended", cause |-> id]

\* socket.emit('new_fight_started', {fightId, startTime}), lines 103-106: the
\* payload is read from the manager when the callback runs; `cause` is the
\* ghost field of the notification being delivered.
NewFightMessage(cur, start, cause) ==
    [event |-> "new_fight_started", fightId |-> cur, startTime |-> start, cause |-> cause]

\* socket.emit('fight_ended'), line 420
FightEndedMessage(cause) == [event |-> "fight_ended", cause |-> cause]

\* A query has not been answered since the last mutation.
NoReply == [op |-> "none"]

\* The history file does not exist (readFile fails with ENOENT).
NoFile == [state |-> "missing"]

\* The history file holds text JSON.parse rejects (a write that was cut short).
UnparsableFile == [state |-> "unparsable"]

VARIABLES
    fights,                 \* this.fights: fight id -> fight record
    currentFightId,         \* this.currentFightId
    currentFightStartTime,  \* this.currentFightStartTime
    lastActivityTime,       \* this.lastActivityTime
    fightTimeout,           \* this.fightTimeout
    cumulativeStats,        \* this.cumulativeStats
    locked,                 \* fightLock: held
    lockQueue,              \* fightLock: invocations waiting in acquire()
    resumable,              \* the invocation whose acquire() resolved, body not yet run
    now,                    \* Date.now()
    reply,                  \* the value the last query or load returned
    emitQueue,              \* notifications handed to import('./Socket.js').then, not yet delivered
    socket,                 \* the messages socket.emit has sent, oldest first
    disk,                   \* ./logs/fight_history/fight_history.json
    ops,                    \* ghost: operations called so far
    folds,                  \* ghost: fight id -> number of times it was folded into cumulativeStats
    diskOf                  \* ghost: the store and counters the file on disk was written from

memVars  == <<fights, currentFightId, currentFightStartTime, lastActivityTime,
              fightTimeout, cumulativeStats>>
lockVars == <<locked, lockQueue, resumable>>
diskVars == <<disk, diskOf>>
vars     == <<memVars, lockVars, now, reply, emitQueue, socket, disk, ops, folds, diskOf>>

----------------------------------------------------------------------------
(* Helpers *)

RECURSIVE SumOver(_, _, _)
SumOver(fs, ids, field) ==
    IF ids = {} THEN 0
    ELSE LET id == CHOOSE x \in ids : TRUE
         IN  (CASE field = "totalDamage"  -> fs[id].totalDamage
                [] field = "totalHealing" -> fs[id].totalHealing
                [] field = "duration"     -> fs[id].duration)
             + SumOver(fs, ids \ {id}, field)

Active(fs)    == {id \in DOMAIN fs : fs[id].isActive}
Finalized(fs) == {id \in DOMAIN fs : ~fs[id].isActive}

\* this.fights.set(id, record)
MapSet(fs, id, rec) ==
    [x \in DOMAIN fs \cup {id} |-> IF x = id THEN rec ELSE fs[x]]

Pending == resumable \o lockQueue

PendingCount == Len(resumable) + Len(lockQueue)

----------------------------------------------------------------------------
(* The functions of FightHistoryManager *)

\* (mutant) the boundary is reached one millisecond early
shouldStartNewFight_Inclusive(cur, last, timestamp, timeout) ==
    \/ cur = NoFight
    \/ (last > 0 /\ (timestamp - last) >= timeout)

\* (mutant) a jump of the timestamps in either direction counts as a gap
shouldStartNewFight_AbsoluteGap(cur, last, timestamp, timeout) ==
    \/ cur = NoFight
    \/ (last > 0 /\ ((timestamp - last) > timeout \/ (last - timestamp) > timeout))

\* recordActivity, line 38
shouldStartNewFight(cur, last, timestamp, timeout) ==
    \/ cur = NoFight
    \/ (last > 0 /\ (timestamp - last) > timeout)

\* (mutant) the activity's value replaces the total instead of being added
updateCurrentFightStats_Overwrite(fs, cur, activityType, value, clock) ==
    IF cur = NoFight THEN fs
    ELSE IF cur \notin DOMAIN fs THEN fs
    ELSE [fs EXCEPT ![cur] =
            [@ EXCEPT
               !.totalDamage  = IF activityType = "damage"  THEN value ELSE @,
               !.totalHealing = IF activityType = "healing" THEN value ELSE @,
               !.endTime      = clock,
               !.duration     = clock - fs[cur].startTime]]

\* (mutant) every activity is added to both totals
updateCurrentFightStats_BothTotals(fs, cur, activityType, value, clock) ==
    IF cur = NoFight THEN fs
    ELSE IF cur \notin DOMAIN fs THEN fs
    ELSE [fs EXCEPT ![cur] =
            [@ EXCEPT
               !.totalDamage  = @ + value,
               !.totalHealing = @ + value,
               !.endTime      = clock,
               !.duration     = clock - fs[cur].startTime]]

\* updateCurrentFightStats: the store after the activity was applied
updateCurrentFightStats(fs, cur, activityType, value, clock) ==
    IF cur = NoFight THEN fs
    ELSE IF cur \notin DOMAIN fs THEN fs
    ELSE [fs EXCEPT ![cur] =
            [@ EXCEPT
               !.totalDamage  = IF activityType = "damage"  THEN @ + value ELSE @,
               !.totalHealing = IF activityType = "healing" THEN @ + value ELSE @,
               !.endTime      = clock,
               !.duration     = clock - fs[cur].startTime]]

\* (mutant) finalize folds the totals but leaves the encounter active
finalizeCurrentFight_StillActive(fs, cs, cur, clock) ==
    IF cur = NoFight \/ cur \notin DOMAIN fs THEN [fights |-> fs, stats |-> cs]
    ELSE [fights |-> fs,
          stats  |-> [cs EXCEPT !.totalDamage   = @ + fs[cur].totalDamage,
                                !.totalHealing  = @ + fs[cur].totalHealing,
                                !.totalFights   = @ + 1,
                                !.totalDuration = @ + fs[cur].duration]]

\* (mutant) finalize does not fold the encounter's damage
finalizeCurrentFight_NoDamageFold(fs, cs, cur, clock) ==
    IF cur = NoFight \/ cur \notin DOMAIN fs THEN [fights |-> fs, stats |-> cs]
    ELSE LET fight == [fs[cur] EXCEPT !.endTime  = clock,
                                      !.duration = clock - fs[cur].startTime,
                                      !.isActive = FALSE]
         IN  [fights |-> [fs EXCEPT ![cur] = fight],
              stats  |-> [cs EXCEPT !.totalHealing  = @ + fight.totalHealing,
                                    !.totalFights   = @ + 1,
                                    !.totalDuration = @ + fight.duration]]

\* finalizeCurrentFight: the store and the cumulative counters afterwards
finalizeCurrentFight(fs, cs, cur, clock) ==
    IF cur = NoFight THEN [fights |-> fs, stats |-> cs]
    ELSE IF cur \notin DOMAIN fs THEN [fights |-> fs, stats |-> cs]
    ELSE LET fight == [fs[cur] EXCEPT !.endTime  = clock,
                                      !.duration = clock - fs[cur].startTime,
                                      !.isActive = FALSE]
         IN  [fights |-> [fs EXCEPT ![cur] = fight],
              stats  |-> [cs EXCEPT !.totalDamage   = @ + fight.totalDamage,
                                    !.totalHealing  = @ + fight.totalHealing,
                                    !.totalFights   = @ + 1,
                                    !.totalDuration = @ + fight.duration]]

\* ghost: the fold counter after finalizeCurrentFight ran for cur
Folded(fd, fs, cur) ==
    IF cur = NoFight \/ cur \notin DOMAIN fs THEN fd
    ELSE LET n == IF cur \in DOMAIN fd THEN fd[cur] ELSE 0
             m == IF n < MaxFolds THEN n + 1 ELSE n
         IN  [x \in DOMAIN fd \cup {cur} |-> IF x = cur THEN m ELSE fd[x]]

\* getCurrentFight
getCurrentFight(fs, cur) ==
    IF cur = NoFight THEN <<"null">>
    ELSE IF cur \in DOMAIN fs THEN <<"fight", fs[cur]>>
    ELSE <<"undefined">>

\* getAllFights, lines 228-236: the summary pushed for a completed fight.
\* Object.keys of a Map is empty, of a snapshot object its uids.
FightSummary(fight) ==
    [ id           |-> fight.id,
      startTime    |-> fight.startTime,
      endTime      |-> fight.endTime,
      duration     |-> fight.duration,
      totalDamage  |-> fight.totalDamage,
      totalHealing |-> fight.totalHealing,
      userCount    |-> IF fight.userStats.kind = "Map" THEN 0
                       ELSE Cardinality(DOMAIN fight.userStats.entries) ]

\* getAllFights, line 241: sort((a, b) => b.startTime - a.startTime).  The
\* start time of a record is the timestamp of its key, so no two records of
\* the store compare equal and the order of the result does not depend on the
\* order of insertion.
RECURSIVE SortNewestFirst(_, _)
SortNewestFirst(fs, ids) ==
    IF ids = {} THEN <<>>
    ELSE LET newest == CHOOSE x \in ids : \A y \in ids : fs[y].startTime <= fs[x].startTime
         IN  <<FightSummary(fs[newest])>> \o SortNewestFirst(fs, ids \ {newest})

\* (mutant) the active fight is listed as well
getAllFights_WithActive(fs) == SortNewestFirst(fs, DOMAIN fs)

\* getAllFights, lines 224-242
getAllFights(fs) == SortNewestFirst(fs, Finalized(fs))

\* getFightData, lines 249-276: `fightData || null`
getFightData(fs, fightId) ==
    IF fightId \in DOMAIN fs THEN <<"fight", fs[fightId]>> ELSE <<"null">>

\* (mutant) totalFights is not overridden by the size of the store
getCumulativeStats_FinalizedCount(fs, cs, cur) ==
    [ op            |-> "getCumulativeStats",
      totalDamage   |-> cs.totalDamage,
      totalHealing  |-> cs.totalHealing,
      totalDuration |-> cs.totalDuration,
      startTime     |-> cs.startTime,
      currentFight  |-> getCurrentFight(fs, cur),
      totalFights   |-> cs.totalFights ]

\* getCumulativeStats
getCumulativeStats(fs, cs, cur) ==
    [ op            |-> "getCumulativeStats",
      totalDamage   |-> cs.totalDamage,
      totalHealing  |-> cs.totalHealing,
      totalDuration |-> cs.totalDuration,
      startTime     |-> cs.startTime,
      currentFight  |-> getCurrentFight(fs, cur),
      totalFights   |-> Cardinality(DOMAIN fs) ]

----------------------------------------------------------------------------
(* JSON.stringify and JSON.parse on the values the history file holds *)

JNumber(n)  == <<"number", n>>
JString(x)  == <<"string", x>>
JBoolean(b) == <<"boolean", b>>
JNull       == <<"null">>

\* a numeric field that may hold null
JNullable(n) == IF n = NullTime THEN JNull ELSE JNumber(n)

\* a Map has no enumerable properties: JSON.stringify writes it as {}
StringifyUserStats(us) ==
    IF us.kind = "Map" THEN <<>>
    ELSE [uid \in DOMAIN us.entries |-> JString(us.entries[uid])]

\* (mutant) the active encounter is written as finalized
StringifyFight_Inactive(fight) ==
    [ id           |-> JString(fight.id),
      startTime    |-> JNumber(fight.startTime),
      endTime      |-> JNullable(fight.endTime),
      duration     |-> JNumber(fight.duration),
      totalDamage  |-> JNumber(fight.totalDamage),
      totalHealing |-> JNumber(fight.totalHealing),
      userStats    |-> StringifyUserStats(fight.userStats),
      isActive     |-> JBoolean(FALSE) ]

\* saveFightHistory, lines 301-304, through JSON.stringify
StringifyFight(fight) ==
    [ id           |-> JString(fight.id),
      startTime    |-> JNumber(fight.startTime),
      endTime      |-> JNullable(fight.endTime),
      duration     |-> JNumber(fight.duration),
      totalDamage  |-> JNumber(fight.totalDamage),
      totalHealing |-> JNumber(fight.totalHealing),
      userStats    |-> StringifyUserStats(fight.userStats),
      isActive     |-> JBoolean(fight.isActive) ]

StringifyStats(cs) ==
    [ totalDamage   |-> JNumber(cs.totalDamage),
      totalHealing  |-> JNumber(cs.totalHealing),
      totalFights   |-> JNumber(cs.totalFights),
      totalDuration |-> JNumber(cs.totalDuration),
      startTime     |-> JNumber(cs.startTime) ]

\* the text saveFightHistory writes, lines 299-314
HistoryData(fs, cs, clock) ==
    [ state           |-> "json",
      fights          |-> [id \in DOMAIN fs |-> StringifyFight(fs[id])],
      cumulativeStats |-> StringifyStats(cs),
      lastSaved       |-> JNumber(clock) ]

ParseNumber(j) == IF j[1] = "null" THEN NullTime ELSE j[2]

\* loadFightHistory, lines 336-339, on a parsed fight
ParseFight(j) ==
    [ id           |-> j.id[2],
      startTime    |-> ParseNumber(j.startTime),
      endTime      |-> ParseNumber(j.endTime),
      duration     |-> ParseNumber(j.duration),
      totalDamage  |-> ParseNumber(j.totalDamage),
      totalHealing |-> ParseNumber(j.totalHealing),
      userStats    |-> [kind    |-> "Object",
                        entries |-> [uid \in DOMAIN j.userStats |-> j.userStats[uid][2]]],
      isActive     |-> j.isActive[2] ]

\* loadFightHistory, line 360, on the parsed counters
ParseStats(j) ==
    [ totalDamage   |-> ParseNumber(j.totalDamage),
      totalHealing  |-> ParseNumber(j.totalHealing),
      totalFights   |-> ParseNumber(j.totalFights),
      totalDuration |-> ParseNumber(j.totalDuration),
      startTime     |-> ParseNumber(j.startTime) ]

\* loadFightHistory, lines 332-357: the store restored from the file
LoadedFights(doc) == [id \in DOMAIN doc.fights |-> ParseFight(doc.fights[id])]

\* saveUserDataSnapshot, lines 178-193: the plain object built from the Map
\* userSnapshot[uid]: the property key of a plain object is the string form of
\* the uid, one key per uid of the Map.
PropertyKey(uid) == <<"key", uid>>

UserSnapshot(userData) ==
    [kind    |-> "Object",
     entries |-> [k \in {PropertyKey(uid) : uid \in DOMAIN userData} |-> userData[k[2]]]]

----------------------------------------------------------------------------
(* The coordination lock (models/Lock.js) *)

\* acquire(): taken at once when free, else the caller waits in the queue
LockAcquire(inv) ==
    IF locked
    THEN /\ lockQueue' = Append(lockQueue, inv)
         /\ UNCHANGED <<locked, resumable>>
    ELSE /\ locked' = TRUE
         /\ resumable' = Append(resumable, inv)
         /\ UNCHANGED lockQueue

\* release() by the invocation at the head of resumable: the lock passes to the
\* first waiter, or becomes free
LockRelease ==
    IF lockQueue # <<>>
    THEN /\ resumable' = Append(Tail(resumable), Head(lockQueue))
         /\ lockQueue' = Tail(lockQueue)
         /\ UNCHANGED locked
    ELSE /\ resumable' = Tail(resumable)
         /\ locked' = FALSE
         /\ UNCHANGED lockQueue

\* startNewFight(timestamp) up to its await, lines 60-61.  src, activityType
\* and value are ghost fields: what triggered the invocation.
Invocation(timestamp, src, activityType, value) ==
    [ts |-> timestamp, src |-> src, kind |-> activityType, value |-> value]

CanInvoke == Len(Pending) < MaxPending

CanCall == ops < MaxOps

----------------------------------------------------------------------------
(* Actions *)

Init ==
    /\ fights = <<>>
    /\ currentFightId = NoFight
    /\ currentFightStartTime = NullTime
    /\ lastActivityTime = 0
    /\ fightTimeout = DefaultFightTimeout
    /\ cumulativeStats = ZeroStats(0)
    /\ locked = FALSE
    /\ lockQueue = <<>>
    /\ resumable = <<>>
    /\ now = 0
    /\ reply = NoReply
    /\ emitQueue = <<>>
    /\ socket = <<>>
    /\ disk = NoFile
    /\ ops = 0
    /\ folds = <<>>
    /\ diskOf = <<>>

\* recordActivity(timestamp, activityType, value), lines 36-54
recordActivity(timestamp, activityType, value) ==
    LET start == shouldStartNewFight(currentFightId, lastActivityTime, timestamp, fightTimeout)
        src   == IF currentFightId = NoFight THEN "open" ELSE "gap"
        after == updateCurrentFightStats(fights, currentFightId, activityType, value, now)
    IN  /\ CanCall
        /\ start => CanInvoke
        /\ IF start
           THEN LockAcquire(Invocation(timestamp, src, activityType, value))
           ELSE UNCHANGED lockVars
        /\ ops' = ops + 1
        /\ lastActivityTime' = timestamp
        /\ fights' = after
        /\ reply' = NoReply
        /\ UNCHANGED <<currentFightId, currentFightStartTime, fightTimeout,
                       cumulativeStats, now, emitQueue, socket, folds, diskVars>>

\* (mutant) the new encounter is installed without finalizing the current one
startNewFightResume_NoFinalize ==
    /\ resumable # <<>>
    /\ ValidDate(Head(resumable).ts)
    /\ LET inv == Head(resumable)
       IN  /\ currentFightId' = FightId(inv.ts)
           /\ currentFightStartTime' = inv.ts
           /\ fights' = MapSet(fights, FightId(inv.ts), NewFight(inv.ts))
           /\ cumulativeStats' = cumulativeStats
           /\ folds' = folds
           /\ emitQueue' = Append(emitQueue, NewFightEvent(FightId(inv.ts)))
           /\ socket' = socket
    /\ LockRelease
    /\ reply' = NoReply
    /\ UNCHANGED <<lastActivityTime, fightTimeout, now, ops, diskVars>>

\* startNewFight after its await, lines 62-94, when line 88 does not throw
startNewFightResume ==
    /\ resumable # <<>>
    /\ ValidDate(Head(resumable).ts)
    /\ LET inv == Head(resumable)
           fin == IF currentFightId # NoFight
                  THEN finalizeCurrentFight(fights, cumulativeStats, currentFightId, now)
                  ELSE [fights |-> fights, stats |-> cumulativeStats]
       IN  /\ currentFightId' = FightId(inv.ts)
           /\ currentFightStartTime' = inv.ts
           /\ fights' = MapSet(fin.fights, FightId(inv.ts), NewFight(inv.ts))
           /\ cumulativeStats' = fin.stats
           /\ folds' = Folded(folds, fights, currentFightId)
           /\ emitQueue' = Append(emitQueue, NewFightEvent(FightId(inv.ts)))
           /\ socket' = socket
    /\ LockRelease
    /\ reply' = NoReply
    /\ UNCHANGED <<lastActivityTime, fightTimeout, now, ops, diskVars>>

\* (mutant) the lock is released at the end of the try block, not in finally
startNewFightThrows_NoRelease ==
    /\ resumable # <<>>
    /\ ~ValidDate(Head(resumable).ts)
    /\ LET inv == Head(resumable)
           fin == IF currentFightId # NoFight
                  THEN finalizeCurrentFight(fights, cumulativeStats, currentFightId, now)
                  ELSE [fights |-> fights, stats |-> cumulativeStats]
       IN  /\ currentFightId' = FightId(inv.ts)
           /\ currentFightStartTime' = inv.ts
           /\ fights' = MapSet(fin.fights, FightId(inv.ts), NewFight(inv.ts))
           /\ cumulativeStats' = fin.stats
           /\ folds' = Folded(folds, fights, currentFightId)
    /\ resumable' = Tail(resumable)
    /\ reply' = NoReply
    /\ UNCHANGED <<lastActivityTime, fightTimeout, locked, lockQueue, now, emitQueue, socket,
                   ops, diskVars>>

\* startNewFight after its await when line 88 throws: the previous encounter
\* is finalized and the new record inserted (lines 64-86), emitNewFightEvent
\* (line 91) is skipped, `finally` releases the lock (line 93) and the promise
\* is rejected
startNewFightThrows ==
    /\ resumable # <<>>
    /\ ~ValidDate(Head(resumable).ts)
    /\ LET inv == Head(resumable)
           fin == IF currentFightId # NoFight
                  THEN finalizeCurrentFight(fights, cumulativeStats, currentFightId, now)
                  ELSE [fights |-> fights, stats |-> cumulativeStats]
       IN  /\ currentFightId' = FightId(inv.ts)
           /\ currentFightStartTime' = inv.ts
           /\ fights' = MapSet(fin.fights, FightId(inv.ts), NewFight(inv.ts))
           /\ cumulativeStats' = fin.stats
           /\ folds' = Folded(folds, fights, currentFightId)
    /\ LockRelease
    /\ reply' = NoReply
    /\ UNCHANGED <<lastActivityTime, fightTimeout, now, emitQueue, socket, ops, diskVars>>

\* forceStartNewFight(timestamp), lines 431-433
forceStartNewFight(timestamp) ==
    /\ CanCall
    /\ CanInvoke
    /\ LockAcquire(Invocation(timestamp, "force", "none", 0))
    /\ ops' = ops + 1
    /\ reply' = NoReply
    /\ UNCHANGED <<memVars, now, emitQueue, socket, folds, diskVars>>

\* (mutant) the watchdog finalizes without telling the front end
checkForInactivity_Silent(currentTime) ==
    /\ CanCall
    /\ ops' = ops + 1
    /\ IF /\ currentFightId # NoFight
          /\ lastActivityTime > 0
          /\ currentTime - lastActivityTime > fightTimeout
       THEN LET fin == finalizeCurrentFight(fights, cumulativeStats, currentFightId, now)
            IN  /\ fights' = fin.fights
                /\ cumulativeStats' = fin.stats
                /\ folds' = Folded(folds, fights, currentFightId)
                /\ currentFightId' = NoFight
                /\ currentFightStartTime' = NullTime
       ELSE UNCHANGED <<fights, cumulativeStats, folds, currentFightId, currentFightStartTime>>
    /\ reply' = NoReply
    /\ UNCHANGED <<lastActivityTime, fightTimeout, lockVars, now, emitQueue, socket, diskVars>>

\* (mutant) the watchdog measures the silence from the start of the encounter
\* and asks for twice the timeout
InactivityCheck_FromStart(currentTime) ==
    /\ IF /\ currentFightId # NoFight
          /\ lastActivityTime > 0
          /\ currentTime - currentFightStartTime > 2 * fightTimeout
       THEN LET fin == finalizeCurrentFight(fights, cumulativeStats, currentFightId, now)
            IN  /\ fights' = fin.fights
                /\ cumulativeStats' = fin.stats
                /\ folds' = Folded(folds, fights, currentFightId)
                /\ currentFightId' = NoFight
                /\ currentFightStartTime' = NullTime
                /\ emitQueue' = Append(emitQueue, FightEndedEvent(currentFightId))
                /\ socket' = socket
       ELSE UNCHANGED <<fights, cumulativeStats, folds, currentFightId, currentFightStartTime,
                        emitQueue, socket>>
    /\ reply' = NoReply
    /\ UNCHANGED <<lastActivityTime, fightTimeout, lockVars, now, diskVars>>

\* checkForInactivity(currentTime), lines 398-411: what one call does
InactivityCheck(currentTime) ==
    /\ IF /\ currentFightId # NoFight
          /\ lastActivityTime > 0
          /\ currentTime - lastActivityTime > fightTimeout
       THEN LET fin == finalizeCurrentFight(fights, cumulativeStats, currentFightId, now)
            IN  /\ fights' = fin.fights
                /\ cumulativeStats' = fin.stats
                /\ folds' = Folded(folds, fights, currentFightId)
                /\ currentFightId' = NoFight
                /\ currentFightStartTime' = NullTime
                /\ emitQueue' = Append(emitQueue, FightEndedEvent(currentFightId))
                /\ socket' = socket
       ELSE UNCHANGED <<fights, cumulativeStats, folds, currentFightId, currentFightStartTime,
                        emitQueue, socket>>
    /\ reply' = NoReply
    /\ UNCHANGED <<lastActivityTime, fightTimeout, lockVars, now, diskVars>>

\* checkForInactivity(currentTime) as one of the calls of a run
checkForInactivity(currentTime) ==
    /\ CanCall
    /\ ops' = ops + 1
    /\ InactivityCheck(currentTime)

\* checkForInactivity(currentTime) called by the periodic timer, for as long
\* as the process runs
checkForInactivityTick(currentTime) ==
    /\ InactivityCheck(currentTime)
    /\ UNCHANGED ops

\* (mutant) lastActivityTime survives the clearing
clearHistory_KeepsLastActivity ==
    /\ CanCall
    /\ ops' = ops + 1
    /\ fights' = <<>>
    /\ currentFightId' = NoFight
    /\ currentFightStartTime' = NullTime
    /\ cumulativeStats' = ZeroStats(now)
    /\ reply' = NoReply
    /\ folds' = <<>>
    /\ UNCHANGED <<lastActivityTime, fightTimeout, lockVars, now, emitQueue, socket, diskVars>>

\* clearHistory, lines 378-392
clearHistory ==
    /\ CanCall
    /\ ops' = ops + 1
    /\ fights' = <<>>
    /\ currentFightId' = NoFight
    /\ currentFightStartTime' = NullTime
    /\ lastActivityTime' = 0
    /\ cumulativeStats' = ZeroStats(now)
    /\ reply' = NoReply
    /\ folds' = <<>>
    /\ UNCHANGED <<fightTimeout, lockVars, now, emitQueue, socket, diskVars>>

\* (mutant) the new summaries are merged into the snapshot already stored
saveUserDataSnapshot_Merges(userData) ==
    /\ CanCall
    /\ ops' = ops + 1
    /\ fights' = IF currentFightId = NoFight \/ currentFightId \notin DOMAIN fights
                 THEN fights
                 ELSE LET old == fights[currentFightId].userStats.entries
                          new == UserSnapshot(userData).entries
                      IN  [fights EXCEPT ![currentFightId].userStats =
                             [kind    |-> "Object",
                              entries |-> [k \in DOMAIN old \cup DOMAIN new |->
                                             IF k \in DOMAIN new THEN new[k] ELSE old[k]]]]
    /\ reply' = NoReply
    /\ UNCHANGED <<currentFightId, currentFightStartTime, lastActivityTime, fightTimeout,
                   cumulativeStats, lockVars, now, emitQueue, socket, folds, diskVars>>

\* saveUserDataSnapshot(userData), lines 171-194
saveUserDataSnapshot(userData) ==
    /\ CanCall
    /\ ops' = ops + 1
    /\ fights' = IF currentFightId = NoFight \/ currentFightId \notin DOMAIN fights
                 THEN fights
                 ELSE [fights EXCEPT ![currentFightId].userStats = UserSnapshot(userData)]
    /\ reply' = NoReply
    /\ UNCHANGED <<currentFightId, currentFightStartTime, lastActivityTime, fightTimeout,
                   cumulativeStats, lockVars, now, emitQueue, socket, folds, diskVars>>

\* (mutant) a failed write drops the current-encounter pointer
saveFightHistory_FailureDropsCurrent ==
    \/ /\ disk' = HistoryData(fights, cumulativeStats, now)
       /\ diskOf' = [fights |-> fights, cumulativeStats |-> cumulativeStats]
       /\ reply' = [op |-> "saveFightHistory", saved |-> TRUE]
       /\ UNCHANGED <<memVars, lockVars, now, emitQueue, socket, ops, folds>>
    \/ /\ UNCHANGED diskVars
       /\ reply' = [op |-> "saveFightHistory", saved |-> FALSE]
       /\ currentFightId' = NoFight
       /\ UNCHANGED <<fights, currentFightStartTime, lastActivityTime, fightTimeout,
                      cumulativeStats, lockVars, now, emitQueue, socket, ops, folds>>

\* saveFightHistory, lines 293-320: the store and the counters are serialized
\* in one synchronous stretch after mkdir; mkdir or writeFile may fail, which
\* is logged (line 318) and leaves the file as it was.  The promise resolves
\* in both cases; reply.saved tells which branch logged.
saveFightHistory ==
    /\ \/ /\ disk' = HistoryData(fights, cumulativeStats, now)
          /\ diskOf' = [fights |-> fights, cumulativeStats |-> cumulativeStats]
          /\ reply' = [op |-> "saveFightHistory", saved |-> TRUE]
       \/ /\ UNCHANGED diskVars
          /\ reply' = [op |-> "saveFightHistory", saved |-> FALSE]
    /\ UNCHANGED <<memVars, lockVars, now, emitQueue, socket, ops, folds>>

\* (mutant) the store is emptied before the file is read
loadFightHistory_ClearsFirst ==
    /\ IF disk.state = "json"
       THEN /\ fights' = LoadedFights(disk)
            /\ cumulativeStats' = ParseStats(disk.cumulativeStats)
            /\ reply' = [op |-> "loadFightHistory", loaded |-> TRUE]
       ELSE /\ fights' = <<>>
            /\ UNCHANGED cumulativeStats
            /\ reply' = [op |-> "loadFightHistory", loaded |-> FALSE]
    /\ UNCHANGED <<currentFightId, currentFightStartTime, lastActivityTime, fightTimeout,
                   lockVars, now, emitQueue, socket, ops, folds, diskVars>>

\* loadFightHistory, lines 325-373: a missing file and a file JSON.parse
\* rejects end in the catch block, before anything is assigned
loadFightHistory ==
    /\ IF disk.state = "json"
       THEN /\ fights' = LoadedFights(disk)
            /\ cumulativeStats' = ParseStats(disk.cumulativeStats)
            /\ reply' = [op |-> "loadFightHistory", loaded |-> TRUE]
       ELSE /\ UNCHANGED <<fights, cumulativeStats>>
            /\ reply' = [op |-> "loadFightHistory", loaded |-> FALSE]
    /\ UNCHANGED <<currentFightId, currentFightStartTime, lastActivityTime, fightTimeout,
                   lockVars, now, emitQueue, socket, ops, folds, diskVars>>

\* the history file is damaged from outside the manager (the process is killed
\* inside writeFile, the disk fills up): what is left does not parse
CorruptFile ==
    /\ disk.state = "json"
    /\ disk' = UnparsableFile
    /\ diskOf' = <<>>
    /\ reply' = NoReply
    /\ UNCHANGED <<memVars, lockVars, now, emitQueue, socket, ops, folds>>

\* the process ends and is started again: the constructor runs, lines 7-28;
\* the file stays
Restart ==
    /\ fights' = <<>>
    /\ currentFightId' = NoFight
    /\ currentFightStartTime' = NullTime
    /\ lastActivityTime' = 0
    /\ fightTimeout' = DefaultFightTimeout
    /\ cumulativeStats' = ZeroStats(now)
    /\ locked' = FALSE
    /\ lockQueue' = <<>>
    /\ resumable' = <<>>
    /\ reply' = NoReply
    /\ folds' = <<>>
    /\ emitQueue' = <<>>
    /\ socket' = <<>>
    /\ UNCHANGED <<now, ops, diskVars>>

\* (mutant) the upper end of the range is not checked
TimeoutRejected_NoUpperEnd(timeout) ==
    \/ timeout[1] # "number"
    \/ timeout[2] < 5000

\* (mutant) the lower end of the range is not checked
TimeoutRejected_NoLowerEnd(timeout) ==
    \/ timeout[1] # "number"
    \/ timeout[2] > 60000

\* POST /fight/timeout, line 302 of the router: the body is refused
TimeoutRejected(timeout) ==
    \/ timeout[1] # "number"
    \/ timeout[2] < 5000
    \/ timeout[2] > 60000

\* updateFightTimeout(timeoutMs), lines 439-442
updateFightTimeout(timeoutMs) ==
    fightTimeout' = timeoutMs

\* POST /fight/timeout, lines 300-315 of the router, the only caller of
\* updateFightTimeout.  `before` and `prior` are ghost fields of the response:
\* the timeout when the request arrived and the request answered just before.
PostFightTimeout(timeout) ==
    LET prior == IF reply.op = "POST /fight/timeout" THEN reply.request ELSE <<"none">>
    IN  /\ CanCall
        /\ ops' = ops + 1
        /\ IF TimeoutRejected(timeout)
           THEN /\ reply' = [op |-> "POST /fight/timeout", status |-> 400, code |-> 1,
                             request |-> timeout, before |-> fightTimeout, prior |-> prior]
                /\ UNCHANGED fightTimeout
           ELSE /\ updateFightTimeout(timeout[2])
                /\ reply' = [op |-> "POST /fight/timeout", status |-> 200, code |-> 0,
                             request |-> timeout, before |-> fightTimeout, prior |-> prior]
        /\ UNCHANGED <<fights, currentFightId, currentFightStartTime, lastActivityTime,
                       cumulativeStats, lockVars, now, emitQueue, socket, folds, diskVars>>

\* GET /fight/cumulative: getCumulativeStats, lines 282-288
QueryCumulative ==
    /\ reply' = getCumulativeStats(fights, cumulativeStats, currentFightId)
    /\ UNCHANGED <<memVars, lockVars, now, emitQueue, socket, ops, folds, diskVars>>

\* GET /fight/list: getAllFights
QueryList ==
    /\ reply' = [op |-> "getAllFights", code |-> 0, data |-> getAllFights(fights)]
    /\ UNCHANGED <<memVars, lockVars, now, emitQueue, socket, ops, folds, diskVars>>

\* GET /fight/current: getCurrentFight
QueryCurrent ==
    /\ reply' = [op |-> "getCurrentFight", code |-> 0,
                 data |-> getCurrentFight(fights, currentFightId)]
    /\ UNCHANGED <<memVars, lockVars, now, emitQueue, socket, ops, folds, diskVars>>

\* (mutant) the handler answers with whatever getFightData returned
QueryById_NoCheck(fightId) ==
    /\ reply' = [op |-> "getFightData", status |-> 200, code |-> 0,
                 data |-> getFightData(fights, fightId)]
    /\ UNCHANGED <<memVars, lockVars, now, emitQueue, socket, ops, folds, diskVars>>

\* GET /fight/:fightId, lines 262-277 of the router
QueryById(fightId) ==
    /\ LET fightData == getFightData(fights, fightId)
       IN  IF fightData[1] # "fight"
           THEN reply' = [op |-> "getFightData", status |-> 404, code |-> 1,
                          msg |-> "Fight not found"]
           ELSE reply' = [op |-> "getFightData", status |-> 200, code |-> 0,
                          data |-> fightData]
    /\ UNCHANGED <<memVars, lockVars, now, emitQueue, socket, ops, folds, diskVars>>

\* the callback of import('./Socket.js').then, lines 101-108 and 418-421, run
\* by the event loop some time after emitNewFightEvent / emitFightEndedEvent
\* returned, oldest notification first
deliverNotification ==
    /\ emitQueue # <<>>
    /\ LET n == Head(emitQueue)
       IN  socket' = Append(socket,
                       IF n.event = "new_fight_started"
                       THEN NewFightMessage(currentFightId, currentFightStartTime, n.cause)
                       ELSE FightEndedMessage(n.cause))
    /\ emitQueue' = Tail(emitQueue)
    /\ UNCHANGED <<memVars, lockVars, now, reply, ops, folds, diskVars>>

\* the clock advances
Tick ==
    /\ \E t \in Clock : t > now /\ now' = t
    /\ reply' = NoReply
    /\ UNCHANGED <<memVars, lockVars, emitQueue, socket, ops, folds, diskVars>>

RecordActivity ==
    \E t \in Stamps, a \in Activities : recordActivity(t, a[1], a[2])

ForceStartNewFight ==
    \E t \in ForceStamps : forceStartNewFight(t)

CheckForInactivity ==
    \E t \in WatchdogStamps : checkForInactivity(t)

Next ==
    \/ RecordActivity
    \/ startNewFightResume
    \/ ForceStartNewFight
    \/ CheckForInactivity
    \/ clearHistory
    \/ QueryCumulative
    \/ Tick

Spec == Init /\ [][Next]_vars

(* The manager with its history file *)

PersistRecordActivity ==
    \E t \in PersistStamps, a \in PersistActivities : recordActivity(t, a[1], a[2])

PersistCheckForInactivity ==
    \E t \in PersistWatchdog : checkForInactivity(t)

SaveUserDataSnapshot ==
    \E userData \in UserData : saveUserDataSnapshot(userData)

NextPersist ==
    \/ PersistRecordActivity
    \/ startNewFightResume
    \/ PersistCheckForInactivity
    \/ SaveUserDataSnapshot
    \/ saveFightHistory
    \/ loadFightHistory
    \/ Restart
    \/ Tick

SpecPersist == Init /\ [][NextPersist]_vars

(* The manager with a history file that can be lost or damaged *)

RecoveryRecordActivity ==
    \E t \in RecoveryStamps, a \in PersistActivities : recordActivity(t, a[1], a[2])

NextRecovery ==
    \/ RecoveryRecordActivity
    \/ startNewFightResume
    \/ PersistCheckForInactivity
    \/ saveFightHistory
    \/ loadFightHistory
    \/ CorruptFile
    \/ Restart
    \/ Tick

SpecRecovery == Init /\ [][NextRecovery]_vars

(* The manager with its timeout setting *)

ConfigRecordActivity ==
    \E t \in ConfigStamps, a \in ConfigActivities : recordActivity(t, a[1], a[2])

ConfigCheckForInactivity ==
    \E t \in ConfigWatchdog : checkForInactivity(t)

UpdateFightTimeout ==
    \E timeout \in TimeoutRequests : PostFightTimeout(timeout)

NextConfig ==
    \/ UpdateFightTimeout
    \/ ConfigRecordActivity
    \/ startNewFightResume
    \/ ConfigCheckForInactivity
    \/ Tick

SpecConfig == Init /\ [][NextConfig]_vars

(* The manager with its read-only queries *)

QueryRecordActivity ==
    \E t \in QueryStamps, a \in QueryActivities : recordActivity(t, a[1], a[2])

QueryForceStartNewFight ==
    \E t \in QueryForceStamps : forceStartNewFight(t)

QueryCheckForInactivity ==
    \E t \in QueryWatchdog : checkForInactivity(t)

QueryFight ==
    \E fightId \in QueryIds : QueryById(fightId)

NextQuery ==
    \/ QueryRecordActivity
    \/ startNewFightResume
    \/ QueryForceStartNewFight
    \/ QueryCheckForInactivity
    \/ SaveUserDataSnapshot
    \/ clearHistory
    \/ QueryList
    \/ QueryCurrent
    \/ QueryFight
    \/ Tick

SpecQuery == Init /\ [][NextQuery]_vars

(* The manager fed with activities of any numeric value *)

ValueRecordActivity ==
    \E t \in ValueStamps, a \in ValueActivities : recordActivity(t, a[1], a[2])

ValueCheckForInactivity ==
    \E t \in ValueWatchdog : checkForInactivity(t)

NextValue ==
    \/ ValueRecordActivity
    \/ startNewFightResume
    \/ ValueCheckForInactivity
    \/ Tick

SpecValue == Init /\ [][NextValue]_vars

(* The manager and its coordination lock, with the event loop running every
   continuation whose acquire() has resolved *)

LockRecordActivity ==
    \E t \in LockStamps, a \in LockActivities : recordActivity(t, a[1], a[2])

LockForceStartNewFight ==
    \E t \in LockForceStamps : forceStartNewFight(t)

NextLock ==
    \/ LockRecordActivity
    \/ LockForceStartNewFight
    \/ startNewFightResume
    \/ startNewFightThrows
    \/ Tick

SpecLock ==
    /\ Init
    /\ [][NextLock]_vars
    /\ WF_vars(startNewFightResume)
    /\ WF_vars(startNewFightThrows)

(* The manager with the periodic watchdog: the calls of a run come to an end,
   the timer and the event loop go on *)

TimerRecordActivity ==
    \E t \in TimerStamps, a \in TimerActivities : recordActivity(t, a[1], a[2])

TimerForceStartNewFight ==
    \E t \in TimerForceStamps : forceStartNewFight(t)

TimerCheckForInactivity ==
    \E t \in TimerTimes : checkForInactivityTick(t)

NextTimer ==
    \/ TimerRecordActivity
    \/ TimerForceStartNewFight
    \/ startNewFightResume
    \/ TimerCheckForInactivity
    \/ Tick

SpecTimer ==
    /\ Init
    /\ [][NextTimer]_vars
    /\ WF_vars(startNewFightResume)
    /\ WF_vars(checkForInactivityTick(WatchdogHorizon))

(* The manager with the delivery of its notifications *)

NotifyRecordActivity ==
    \E t \in NotifyStamps, a \in NotifyActivities : recordActivity(t, a[1], a[2])

NotifyForceStartNewFight ==
    \E t \in NotifyForceStamps : forceStartNewFight(t)

NotifyCheckForInactivity ==
    \E t \in NotifyWatchdog : checkForInactivity(t)

NextNotify ==
    \/ NotifyRecordActivity
    \/ NotifyForceStartNewFight
    \/ startNewFightResume
    \/ NotifyCheckForInactivity
    \/ clearHistory
    \/ deliverNotification
    \/ Tick

SpecNotify == Init /\ [][NextNotify]_vars

(* The manager in runs whose last call is clearHistory: every other call comes
   before it, the continuations of startNewFight run when they run *)

ClearRecordActivity ==
    /\ ops < MaxOps - 1
    /\ \E t \in ClearStamps, a \in ClearActivities : recordActivity(t, a[1], a[2])

ClearForceStartNewFight ==
    /\ ops < MaxOps - 1
    /\ \E t \in ClearForceStamps : forceStartNewFight(t)

ClearHistoryLast ==
    /\ ops = MaxOps - 1
    /\ clearHistory

NextClear ==
    \/ ClearRecordActivity
    \/ ClearForceStartNewFight
    \/ startNewFightResume
    \/ ClearHistoryLast
    \/ Tick

SpecClear == Init /\ [][NextClear]_vars

----------------------------------------------------------------------------
(* Claims *)

\* C1: at most one encounter of the Store has isActive = TRUE in every state,
\* also while new-encounter transitions are waiting on the coordination lock.
C1_SingleActive == Cardinality(Active(fights)) <= 1

\* An active encounter next to a finalized one while a transition waits in the
\* lock's queue behind the one that holds it.
C1_Witness ==
    /\ Cardinality(Active(fights)) = 1
    /\ Finalized(fights) # {}
    /\ lockQueue # <<>>

\* C2: recordActivity(t, damage, v) with no current encounter creates fight_t
\* and, once the transition it triggered has completed, fight_t.totalDamage = v.
C2_OpeningActivityCounted ==
    [][ ( /\ resumable # <<>>
          /\ Head(resumable).src = "open"
          /\ Head(resumable).kind = "damage"
          /\ startNewFightResume )
        => ( /\ FightId(Head(resumable).ts) \in DOMAIN fights'
             /\ fights'[FightId(Head(resumable).ts)].totalDamage = Head(resumable).value )
      ]_vars

\* C3: an activity whose gap exceeds the timeout is applied to the encounter it
\* starts, and the previous encounter's totals do not include it: the call
\* leaves the previous encounter's totals alone, and the completed transition
\* leaves the new encounter with the activity's value.
C3_GapActivityGoesToNewEncounter ==
    [][ /\ \A t \in Stamps, a \in Activities :
             ( /\ currentFightId # NoFight
               /\ currentFightId \in DOMAIN fights
               /\ shouldStartNewFight(currentFightId, lastActivityTime, t, fightTimeout)
               /\ recordActivity(t, a[1], a[2]) )
             => ( /\ fights'[currentFightId].totalDamage = fights[currentFightId].totalDamage
                  /\ fights'[currentFightId].totalHealing = fights[currentFightId].totalHealing )
        /\ ( /\ resumable # <<>>
             /\ Head(resumable).src = "gap"
             /\ startNewFightResume )
           => LET new == fights'[FightId(Head(resumable).ts)]
              IN  /\ Head(resumable).kind = "damage"  => new.totalDamage  = Head(resumable).value
                  /\ Head(resumable).kind = "healing" => new.totalHealing = Head(resumable).value
      ]_vars

\* C4 as stated: with an encounter current and lastActivityTime = T, for every
\* T, recordActivity at T + W + 1 starts a new encounter and recordActivity at
\* any timestamp <= T + W does not.
C4_BoundaryEveryT ==
    [][ \A t \in Stamps, a \in Activities :
          ( currentFightId # NoFight /\ recordActivity(t, a[1], a[2]) )
          => ( /\ t = lastActivityTime + fightTimeout + 1 => PendingCount' = PendingCount + 1
               /\ t <= lastActivityTime + fightTimeout    => PendingCount' = PendingCount )
      ]_vars

\* C4 amended: the same for every T > 0 (lastActivityTime = 0 stands for "no
\* activity yet" and never starts an encounter while one is current).
C4_BoundaryPositiveT ==
    [][ \A t \in Stamps, a \in Activities :
          ( /\ currentFightId # NoFight
            /\ lastActivityTime > 0
            /\ recordActivity(t, a[1], a[2]) )
          => ( /\ t = lastActivityTime + fightTimeout + 1 => PendingCount' = PendingCount + 1
               /\ t <= lastActivityTime + fightTimeout    => PendingCount' = PendingCount )
      ]_vars

\* A transition triggered by the gap is suspended with timestamp 15002 under the
\* timeout 15000: the activity before it was at T = 1, the only timestamp
\* with 0 < T and 15002 - T > 15000, so that 15002 = T + W + 1.
C4_Witness ==
    /\ fightTimeout = 15000
    /\ lastActivityTime = 15002
    /\ currentFightId # NoFight
    /\ \E i \in 1..Len(Pending) : Pending[i].src = "gap" /\ Pending[i].ts = 15002

\* C5: totalDamage, totalHealing and totalDuration of cumulativeStats are the
\* sums of the fields over exactly the encounters of the Store with isActive = FALSE.
C5_CumulativeSums ==
    /\ cumulativeStats.totalDamage   = SumOver(fights, Finalized(fights), "totalDamage")
    /\ cumulativeStats.totalHealing  = SumOver(fights, Finalized(fights), "totalHealing")
    /\ cumulativeStats.totalDuration = SumOver(fights, Finalized(fights), "duration")

\* C6: cumulativeStats.totalFights is the number of encounters of the Store
\* with isActive = FALSE.
C6_TotalFightsIsFinalizedCount ==
    cumulativeStats.totalFights = Cardinality(Finalized(fights))

\* C7: finalize changes cumulativeStats once per encounter id: no id is folded
\* into the counters a second time.
C7_FoldedOncePerId == \A id \in DOMAIN folds : folds[id] <= 1

\* The state the scenario of C8 describes: the Store holds one finalized
\* encounter with totalDamage 150, the only one finalized so far, and one newly
\* started active encounter; getCumulative() has just answered.
C8_ScenarioState ==
    /\ reply.op = "getCumulativeStats"
    /\ Cardinality(DOMAIN fights) = 2
    /\ \E f \in Finalized(fights) :
          /\ fights[f].totalDamage = 150
          /\ DOMAIN folds = {f}
          /\ folds[f] = 1
    /\ \E g \in Active(fights) :
          /\ g = currentFightId
          /\ fights[g].totalDamage = 0
          /\ fights[g].totalHealing = 0
          /\ fights[g].endTime = NullTime

\* C8 as stated: in that state getCumulative() reports totalFights = 1 and
\* totalDamage = 150.
C8_ScenarioOneFight ==
    C8_ScenarioState => (reply.totalFights = 1 /\ reply.totalDamage = 150)

\* C8 amended: in that state getCumulative() reports totalFights = 2, the size
\* of the Store with the active encounter included, and totalDamage = 150.
C8_ScenarioStoreSize ==
    C8_ScenarioState => (reply.totalFights = 2 /\ reply.totalDamage = 150)

C8_Witness == C8_ScenarioState /\ cumulativeStats.totalFights = 1

\* C9: getCumulative() returns the counters of cumulativeStats, the current
\* encounter (or none) and totalFights = the number of encounters in the Store,
\* the active one included.
C9_CumulativeReply ==
    reply.op = "getCumulativeStats" =>
        /\ reply.totalFights   = Cardinality(DOMAIN fights)
        /\ reply.totalDamage   = cumulativeStats.totalDamage
        /\ reply.totalHealing  = cumulativeStats.totalHealing
        /\ reply.totalDuration = cumulativeStats.totalDuration
        /\ reply.startTime     = cumulativeStats.startTime
        /\ reply.currentFight  = IF currentFightId = NoFight THEN <<"null">>
                                 ELSE <<"fight", fights[currentFightId]>>

\* getCumulative() answered with an encounter active and another finalized: the
\* Store size differs from the finalized count.
C9_Witness ==
    /\ reply.op = "getCumulativeStats"
    /\ Active(fights) # {}
    /\ Finalized(fights) # {}
    /\ reply.totalFights = cumulativeStats.totalFights + 1
    /\ reply.currentFight[1] = "fight"

\* Two encounter records agree field for field; participantSnapshots are
\* compared as mappings from participant to summary (an empty Map and an empty
\* object are the same mapping).
SameEncounter(a, b) ==
    /\ a.id = b.id
    /\ a.startTime = b.startTime
    /\ a.endTime = b.endTime
    /\ a.duration = b.duration
    /\ a.totalDamage = b.totalDamage
    /\ a.totalHealing = b.totalHealing
    /\ a.isActive = b.isActive
    /\ a.userStats.entries = b.userStats.entries

\* C10: loadSnapshot after saveSnapshot reproduces the set of encounters and the
\* cumulative counters of the state that was saved, field for field.
C10_RoundTrip ==
    (reply.op = "loadFightHistory" /\ reply.loaded) =>
        /\ DOMAIN fights = DOMAIN diskOf.fights
        /\ \A id \in DOMAIN fights : SameEncounter(fights[id], diskOf.fights[id])
        /\ cumulativeStats = diskOf.cumulativeStats

\* A file saved with a finalized encounter that carries damage and participant
\* snapshots and with an active encounter has been loaded by a restarted
\* process (nothing is current there).
C10_Witness ==
    /\ reply.op = "loadFightHistory"
    /\ reply.loaded
    /\ currentFightId = NoFight
    /\ cumulativeStats.totalFights = 1
    /\ \E f \in Finalized(fights) :
          /\ fights[f].totalDamage > 0
          /\ fights[f].userStats.entries # <<>>
    /\ \E g \in Active(fights) : fights[g].endTime = NullTime

\* C11: an encounter restored by loadSnapshot with isActive = TRUE continues:
\* the next recordActivity within the timeout adds its value to that encounter,
\* and the next checkForInactivity whose gap exceeds the timeout finalizes it
\* and folds it into cumulativeStats.  The premise is the state right after the
\* load of a process that has just started: nothing is current, no activity
\* has been seen, no transition is pending.
C11_RestoredActiveContinues ==
    [][ \A f \in DOMAIN fights :
          ( /\ reply.op = "loadFightHistory"
            /\ reply.loaded
            /\ currentFightId = NoFight
            /\ lastActivityTime = 0
            /\ Pending = <<>>
            /\ fights[f].isActive )
          => /\ \A t \in RecoveryStamps, a \in PersistActivities :
                  ( /\ t - lastActivityTime <= fightTimeout
                    /\ a[1] = "damage"
                    /\ recordActivity(t, a[1], a[2]) )
                  => ( /\ f \in DOMAIN fights'
                       /\ fights'[f].totalDamage = fights[f].totalDamage + a[2] )
             /\ \A t \in PersistWatchdog :
                  ( /\ t - lastActivityTime > fightTimeout
                    /\ checkForInactivity(t) )
                  => ( /\ ~fights'[f].isActive
                       /\ cumulativeStats'.totalFights = cumulativeStats.totalFights + 1 )
      ]_vars

\* The manager as its constructor leaves it: nothing stored, nothing current,
\* the counters at zero.
Constructed ==
    /\ fights = <<>>
    /\ currentFightId = NoFight
    /\ currentFightStartTime = NullTime
    /\ lastActivityTime = 0
    /\ cumulativeStats = ZeroStats(cumulativeStats.startTime)

C13_FailedSaveChangesNothing ==
    [][ /\ ( /\ saveFightHistory
             /\ reply'.op = "saveFightHistory"
             /\ ~reply'.saved )
           => UNCHANGED <<memVars, lockVars>>
        /\ ( /\ reply = [op |-> "saveFightHistory", saved |-> FALSE]
             /\ currentFightId \in DOMAIN fights )
           => /\ \A t \in RecoveryStamps, a \in PersistActivities :
                   ( a[1] = "damage" /\ recordActivity(t, a[1], a[2]) )
                   => ( /\ lastActivityTime' = t
                        /\ fights'[currentFightId].totalDamage
                             = fights[currentFightId].totalDamage + a[2] )
              /\ \A t \in PersistWatchdog :
                   ( /\ lastActivityTime > 0
                     /\ t - lastActivityTime > fightTimeout
                     /\ checkForInactivity(t) )
                   => ( /\ ~fights'[currentFightId].isActive
                        /\ currentFightId' = NoFight )
      ]_vars

\* A save has just failed while an encounter with damage is current and the
\* file on disk, written by an earlier save, is behind the Store.
C13_Witness ==
    /\ reply = [op |-> "saveFightHistory", saved |-> FALSE]
    /\ currentFightId \in DOMAIN fights
    /\ fights[currentFightId].totalDamage > 0
    /\ disk.state = "json"
    /\ diskOf.fights # fights

\* C14: updateFightTimeout(ms) with ms outside [5000, 60000] (or not a number)
\* is answered with an error result and leaves fightTimeout unchanged; with ms
\* inside the range, the two ends included, it sets fightTimeout to ms.
C14_TimeoutRange ==
    [][ \A timeout \in TimeoutRequests :
          PostFightTimeout(timeout) =>
            IF timeout[1] = "number" /\ 5000 <= timeout[2] /\ timeout[2] <= 60000
            THEN /\ fightTimeout' = timeout[2]
                 /\ reply'.code = 0
            ELSE /\ fightTimeout' = fightTimeout
                 /\ reply'.code = 1
                 /\ reply'.status = 400
      ]_vars

\* A request above the range has been refused after a request at the upper end
\* was accepted: the timeout is 60000, not the default.
C14_Witness ==
    /\ reply.op = "POST /fight/timeout"
    /\ reply.request = <<"number", 60001>>
    /\ reply.code = 1
    /\ reply.prior = <<"number", 60000>>
    /\ fightTimeout = 60000

\* C15 as stated: updateFightTimeout(3000) followed by
\* updateFightTimeout(100000): the second call is rejected and the timeout
\* remains 3000.
C15_ScenarioRemains3000 ==
    [][ ( /\ reply.op = "POST /fight/timeout"
          /\ reply.request = <<"number", 3000>>
          /\ PostFightTimeout(<<"number", 100000>>) )
        => ( /\ reply'.code = 1
             /\ fightTimeout' = 3000 )
      ]_vars

\* C15 amended: both calls are rejected (3000 is below the range as well) and
\* the timeout remains what it was before the first call.
C15_ScenarioBothRejected ==
    [][ ( /\ reply.op = "POST /fight/timeout"
          /\ reply.request = <<"number", 3000>>
          /\ PostFightTimeout(<<"number", 100000>>) )
        => ( /\ reply.code = 1
             /\ reply'.code = 1
             /\ fightTimeout = reply.before
             /\ fightTimeout' = reply.before )
      ]_vars

\* The two calls of the scenario have been answered, on a manager whose timeout
\* had been set to 5000 before.
C15_Witness ==
    /\ reply.op = "POST /fight/timeout"
    /\ reply.request = <<"number", 100000>>
    /\ reply.prior = <<"number", 3000>>
    /\ reply.code = 1
    /\ fightTimeout = 5000

\* C16: clearAll() from any state empties the Store, sets the current pointer
\* to none and lastActivityTime to 0 and resets every counter of
\* cumulativeStats to zero; queried right afterwards, listFinalized() is
\* empty, getCurrent() is none and getCumulative().totalFights is 0.
C16_ClearAllResets ==
    [][ clearHistory
        => /\ fights' = <<>>
           /\ currentFightId' = NoFight
           /\ lastActivityTime' = 0
           /\ cumulativeStats' = ZeroStats(now)
           /\ getAllFights(fights') = <<>>
           /\ getCurrentFight(fights', currentFightId') = <<"null">>
           /\ getCumulativeStats(fights', cumulativeStats', currentFightId').totalFights = 0
      ]_vars

\* The Store is empty with counters reset at clock 15002 (only clearAll does
\* that) after the watchdog had finalized an encounter.
C16_Witness ==
    /\ fights = <<>>
    /\ currentFightId = NoFight
    /\ lastActivityTime = 0
    /\ cumulativeStats = ZeroStats(15002)
    /\ \E i \in 1..Len(emitQueue) : emitQueue[i].event = "fight_ended"

\* What C17 asks of a checkForInactivity step that has to finalize: the current
\* encounter is finalized and folded once, the pointer is cleared, one
\* 'fight_ended' notification is handed to the emitter.
WatchdogFinalized ==
    /\ currentFightId \in DOMAIN fights'
    /\ ~fights'[currentFightId].isActive
    /\ cumulativeStats'.totalFights = cumulativeStats.totalFights + 1
    /\ cumulativeStats'.totalDamage
         = cumulativeStats.totalDamage + fights[currentFightId].totalDamage
    /\ cumulativeStats'.totalHealing
         = cumulativeStats.totalHealing + fights[currentFightId].totalHealing
    /\ currentFightId' = NoFight
    /\ emitQueue' = Append(emitQueue, FightEndedEvent(currentFightId))

\* C17 as stated: checkForInactivity(currentTime) finalizes when an encounter
\* is current and currentTime - lastActivityTime > fightTimeout; otherwise it
\* changes no state and emits nothing.
C17_WatchdogEveryLastActivity ==
    [][ \A t \in WatchdogStamps :
          checkForInactivity(t) =>
            IF currentFightId # NoFight /\ t - lastActivityTime > fightTimeout
            THEN WatchdogFinalized
            ELSE UNCHANGED <<memVars, lockVars, emitQueue>>
      ]_vars

\* C17 amended: it finalizes when an encounter is current, lastActivityTime > 0
\* and currentTime - lastActivityTime > fightTimeout; otherwise (also with
\* lastActivityTime = 0, whatever currentTime is) it changes no state and emits
\* nothing.
C17_WatchdogPositiveLastActivity ==
    [][ \A t \in WatchdogStamps :
          checkForInactivity(t) =>
            IF /\ currentFightId # NoFight
               /\ lastActivityTime > 0
               /\ t - lastActivityTime > fightTimeout
            THEN WatchdogFinalized
            ELSE UNCHANGED <<memVars, lockVars, emitQueue>>
      ]_vars

\* The watchdog has just finalized an encounter that carried damage: nothing
\* is current and the last notification handed over is 'fight_ended' for it.
C17_Witness ==
    /\ currentFightId = NoFight
    /\ emitQueue # <<>>
    /\ LET last == emitQueue[Len(emitQueue)]
       IN  /\ last.event = "fight_ended"
           /\ last.cause \in DOMAIN fights
           /\ ~fights[last.cause].isActive
           /\ fights[last.cause].totalDamage > 0
           /\ cumulativeStats.totalDamage >= fights[last.cause].totalDamage

\* C18: listFinalized() returns exactly the encounters of the Store with
\* isActive = FALSE, each once and with its own fields, never the active one,
\* ordered by startTime descending.
C18_ListFinalizedNewestFirst ==
    reply.op = "getAllFights" =>
        LET list == reply.data
        IN  /\ Len(list) = Cardinality(Finalized(fights))
            /\ {list[i].id : i \in 1..Len(list)} = Finalized(fights)
            /\ \A i \in 1..Len(list) :
                  /\ list[i].startTime    = fights[list[i].id].startTime
                  /\ list[i].endTime      = fights[list[i].id].endTime
                  /\ list[i].duration     = fights[list[i].id].duration
                  /\ list[i].totalDamage  = fights[list[i].id].totalDamage
                  /\ list[i].totalHealing = fights[list[i].id].totalHealing
            /\ \A i, j \in 1..Len(list) : i < j => list[i].startTime > list[j].startTime

\* The list has been returned with two finalized encounters while a third
\* encounter, started between them in timestamp, is active.
C18_Witness ==
    /\ reply.op = "getAllFights"
    /\ Len(reply.data) = 2
    /\ \E g \in Active(fights) :
          /\ fights[g].startTime < reply.data[1].startTime
          /\ fights[g].startTime > reply.data[2].startTime

\* C19: the queries do not fail on absence and do not write: getCurrent()
\* returns none when no encounter is current, getById(id) for an id that is not
\* in the Store is answered 'Fight not found', and neither changes the Store,
\* the current pointer or cumulativeStats.
C19_QueriesOnAbsence ==
    [][ /\ QueryCurrent
           => /\ UNCHANGED <<memVars, lockVars>>
              /\ currentFightId = NoFight
                   => (reply'.code = 0 /\ reply'.data = <<"null">>)
        /\ \A fightId \in QueryIds :
             QueryById(fightId)
             => /\ UNCHANGED <<memVars, lockVars>>
                /\ fightId \notin DOMAIN fights
                     => ( /\ reply'.status = 404
                          /\ reply'.code = 1
                          /\ reply'.msg = "Fight not found" )
      ]_vars

\* An id that is not in the Store has been asked for while the Store holds
\* encounters and none is current.
C19_Witness ==
    /\ reply.op = "getFightData"
    /\ reply.status = 404
    /\ fights # <<>>
    /\ currentFightId = NoFight

\* C20: creating an encounter never uses the id of an encounter that is
\* already in the Store, and never replaces or discards a record of the Store.
C20_CreationNeverReplaces ==
    [][ ( resumable # <<>> /\ startNewFightResume )
        => /\ FightId(Head(resumable).ts) \notin DOMAIN fights
           /\ \A id \in DOMAIN fights :
                 /\ id \in DOMAIN fights'
                 /\ fights'[id].startTime = fights[id].startTime
                 /\ fights'[id].totalDamage = fights[id].totalDamage
                 /\ fights'[id].totalHealing = fights[id].totalHealing
      ]_vars

\* C21: while an encounter is active, an activity with a non-negative value
\* never lowers its totalDamage nor its totalHealing: across every
\* recordActivity step with value >= 0, each encounter that is active before
\* the step is still in the Store with totals at least what they were.
C21_TotalsNonDecreasing ==
    [][ \A t \in ValueStamps, a \in ValueActivities :
          (recordActivity(t, a[1], a[2]) /\ a[2] >= 0)
            => \A id \in Active(fights) :
                 /\ id \in DOMAIN fights'
                 /\ fights'[id].totalDamage >= fights[id].totalDamage
                 /\ fights'[id].totalHealing >= fights[id].totalHealing
      ]_vars

\* a current, active encounter that has taken both damage and healing
\* activities, several of them
C21_Witness ==
    /\ currentFightId \in Active(fights)
    /\ fights[currentFightId].totalDamage >= 100
    /\ fights[currentFightId].totalHealing >= 30
    /\ ops = MaxOps

\* C22: an activity with a negative value never decreases a total: after
\* recordActivity with value < 0 the current encounter's totalDamage and
\* totalHealing are each at least what they were before.
C22_NegativeNeverDecreases ==
    [][ \A t \in ValueStamps, a \in ValueActivities :
          (recordActivity(t, a[1], a[2]) /\ a[2] < 0
             /\ currentFightId \in DOMAIN fights)
            => /\ fights'[currentFightId].totalDamage
                    >= fights[currentFightId].totalDamage
               /\ fights'[currentFightId].totalHealing
                    >= fights[currentFightId].totalHealing
      ]_vars

\* C23: saveUserDataSnapshot(P) with a current encounter replaces that
\* encounter's userStats wholesale: afterwards it has one key per participant
\* of P and no other key, each mapped to the summary supplied as it was
\* supplied (text-typed ones included), whatever an earlier capture had
\* stored; the encounter's other fields and every other encounter are
\* unchanged.  With no current encounter the Store is unchanged.  Pointer,
\* counters and lock are unchanged in both cases.
C23_SnapshotReplacesWholesale ==
    [][ \A userData \in UserData :
          saveUserDataSnapshot(userData)
            => /\ IF currentFightId # NoFight /\ currentFightId \in DOMAIN fights
                  THEN /\ DOMAIN fights' = DOMAIN fights
                       /\ LET after == fights'[currentFightId].userStats.entries
                          IN  /\ DOMAIN after = {PropertyKey(uid) : uid \in DOMAIN userData}
                              /\ \A uid \in DOMAIN userData :
                                   after[PropertyKey(uid)] = userData[uid]
                       /\ [fights'[currentFightId] EXCEPT !.userStats = EmptyMap]
                            = [fights[currentFightId] EXCEPT !.userStats = EmptyMap]
                       /\ \A id \in DOMAIN fights \ {currentFightId} :
                            fights'[id] = fights[id]
                  ELSE fights' = fights
               /\ UNCHANGED <<currentFightId, currentFightStartTime, lastActivityTime,
                              fightTimeout, cumulativeStats, lockVars>>
      ]_vars

\* the current encounter holds a one-participant snapshot while an earlier,
\* finalized encounter keeps its two-participant snapshot with a text summary
C23_Witness ==
    /\ currentFightId \in Active(fights)
    /\ DOMAIN fights[currentFightId].userStats.entries = {PropertyKey(1)}
    /\ \E f \in Finalized(fights) :
         /\ DOMAIN fights[f].userStats.entries = {PropertyKey(1), PropertyKey(2)}
         /\ fights[f].userStats.entries[PropertyKey(2)] = "textSummary"

\* C24: at most one encounter of the Store has isActive = TRUE in every
\* reachable state under all operations, loadFightHistory followed by
\* recordActivity included.
C24_SingleActiveAfterLoad ==
    \A a \in Active(fights), b \in Active(fights) : a = b

\* C25: recordActivity(timestamp, ...) invokes startNewFight(timestamp) if
\* and only if there is no current encounter, or lastActivityTime > 0 and
\* timestamp - lastActivityTime > fightTimeout; an out-of-order activity
\* (timestamp < lastActivityTime) with an encounter current invokes none and
\* leaves every finalized encounter as it was.
C25_NewEncounterIffBoundary ==
    [][ \A t \in Stamps, a \in Activities :
          recordActivity(t, a[1], a[2])
            => LET boundary == \/ currentFightId = NoFight
                               \/ /\ lastActivityTime > 0
                                  /\ t - lastActivityTime > fightTimeout
               IN  /\ boundary => /\ PendingCount' = PendingCount + 1
                                  /\ Pending'[PendingCount'].ts = t
                                  /\ SubSeq(Pending', 1, PendingCount) = Pending
                   /\ ~boundary => Pending' = Pending
                   /\ (currentFightId # NoFight /\ t < lastActivityTime)
                        => /\ Pending' = Pending
                           /\ \A id \in Finalized(fights) :
                                /\ id \in DOMAIN fights'
                                /\ fights'[id] = fights[id]
      ]_vars

\* fight_1 was closed by the gap activity of 15002, and a late activity with
\* timestamp 1 was then counted on the current fight_15002 without a new
\* encounter being started
C25_Witness ==
    /\ ops = 3
    /\ Pending = <<>>
    /\ currentFightId = FightId(15002)
    /\ lastActivityTime = 1
    /\ FightId(1) \in Finalized(fights)
    /\ fights[FightId(1)].totalDamage + fights[FightId(1)].totalHealing > 0
    /\ fights[FightId(15002)].totalDamage + fights[FightId(15002)].totalHealing > 0

\* C26: when startNewFight installs a new encounter while another one is
\* current, it does so in one step taken with the lock held: after the step
\* the old encounter is finalized (isActive FALSE, or its record replaced when
\* the new id is the same) and folded into cumulativeStats (one more fight,
\* its totals added), and the new encounter is the only active one.  In no
\* state is an encounter other than the current one active, so none shows the
\* new encounter next to an old one that is still active.
C26_OldFinalizedBeforeNewInserted ==
    /\ [](Active(fights) \subseteq {currentFightId})
    /\ [][ (startNewFightResume /\ currentFightId \in DOMAIN fights)
             => LET old == currentFightId
                    new == FightId(Head(resumable).ts)
                IN  /\ locked
                    /\ currentFightId' = new
                    /\ Active(fights') = {new}
                    /\ old # new => old \in Finalized(fights')
                    /\ cumulativeStats'.totalFights = cumulativeStats.totalFights + 1
                    /\ cumulativeStats'.totalDamage
                         = cumulativeStats.totalDamage + fights[old].totalDamage
                    /\ cumulativeStats'.totalHealing
                         = cumulativeStats.totalHealing + fights[old].totalHealing
       ]_vars

\* a transition has just replaced a current encounter: the old one is
\* finalized and counted once, the new one is current and active, and the
\* last notification queued is the one of that transition
C26_Witness ==
    /\ currentFightId \in Active(fights)
    /\ emitQueue # <<>>
    /\ emitQueue[Len(emitQueue)] = NewFightEvent(currentFightId)
    /\ \E f \in Finalized(fights) :
         /\ f # currentFightId
         /\ f \in DOMAIN folds
         /\ folds[f] = 1
         /\ fights[f].totalDamage > 0
         /\ cumulativeStats.totalFights = 1
         /\ cumulativeStats.totalDamage = fights[f].totalDamage

\* C27: encounters are created in increasing order of start timestamp: each
\* encounter created by a transition that recordActivity requested has a
\* startTime strictly greater than that of every encounter created before it
\* and still in the Store, also when activities arrive out of timestamp order.
C27_CreatedInIncreasingOrder ==
    [][ (startNewFightResume /\ Head(resumable).src # "force")
          => \A id \in DOMAIN fights :
               fights[id].startTime < fights'[currentFightId'].startTime
      ]_vars

\* C28: once an encounter has isActive = FALSE it is frozen: across every
\* step other than clearHistory the encounter with that id is still in the
\* Store with isActive = FALSE and the same totalDamage, totalHealing,
\* endTime, duration and userStats.
C28_FinalizedIsFrozen ==
    [][ clearHistory
        \/ \A id \in Finalized(fights) :
             /\ id \in DOMAIN fights'
             /\ ~fights'[id].isActive
             /\ fights'[id].totalDamage = fights[id].totalDamage
             /\ fights'[id].totalHealing = fights[id].totalHealing
             /\ fights'[id].endTime = fights[id].endTime
             /\ fights'[id].duration = fights[id].duration
             /\ fights'[id].userStats = fights[id].userStats
      ]_vars

\* C29: startNewFight(timestamp), also when forceStartNewFight(timestamp)
\* requested it, creates an encounter with id "fight_" + timestamp,
\* startTime = endTime = timestamp, totalDamage = totalHealing = 0,
\* duration = 0 and isActive = TRUE, and makes it the current encounter.
C29_CreatedEncounter ==
    [][ startNewFightResume
          => LET timestamp == Head(resumable).ts
                 id        == FightId(timestamp)
             IN  /\ currentFightId' = id
                 /\ id \in DOMAIN fights'
                 /\ fights'[id].id = id
                 /\ fights'[id].startTime = timestamp
                 /\ fights'[id].endTime = timestamp
                 /\ fights'[id].totalDamage = 0
                 /\ fights'[id].totalHealing = 0
                 /\ fights'[id].duration = 0
                 /\ fights'[id].isActive
      ]_vars

\* C30: applying an activity to the current encounter changes only that
\* encounter: a damage activity adds its value to totalDamage and leaves
\* totalHealing unchanged, a healing activity the reverse; afterwards endTime
\* is the clock reading and duration = endTime - startTime; the encounter's
\* other fields, every other encounter and the cumulativeStats counters are
\* unchanged.
C30_ActivityChangesOnlyCurrent ==
    [][ \A t \in ValueStamps, a \in ValueActivities :
          (recordActivity(t, a[1], a[2]) /\ currentFightId \in DOMAIN fights)
            => LET before == fights[currentFightId]
                   after  == fights'[currentFightId]
               IN  /\ DOMAIN fights' = DOMAIN fights
                   /\ a[1] = "damage"
                        => /\ after.totalDamage = before.totalDamage + a[2]
                           /\ after.totalHealing = before.totalHealing
                   /\ a[1] = "healing"
                        => /\ after.totalHealing = before.totalHealing + a[2]
                           /\ after.totalDamage = before.totalDamage
                   /\ after.endTime = now
                   /\ after.duration = after.endTime - after.startTime
                   /\ after.id = before.id
                   /\ after.startTime = before.startTime
                   /\ after.userStats = before.userStats
                   /\ after.isActive = before.isActive
                   /\ \A id \in DOMAIN fights \ {currentFightId} :
                        fights'[id] = fights[id]
                   /\ cumulativeStats' = cumulativeStats
      ]_vars

\* fight_15002 is current and took a damage and a healing activity at clock
\* 15002, next to the finalized fight_1 and its folded totals
C30_Witness ==
    /\ currentFightId = FightId(15002)
    /\ currentFightId \in Active(fights)
    /\ fights[currentFightId].totalDamage = 100
    /\ fights[currentFightId].totalHealing = 30
    /\ fights[currentFightId].endTime = 15002
    /\ fights[currentFightId].duration = 0
    /\ FightId(1) \in Finalized(fights)
    /\ cumulativeStats.totalFights = 1

\* C31: every mutation of the current-encounter pointer, of lastActivityTime
\* and of the Store's membership is performed while the coordination lock is
\* held: a step that changes one of them begins or ends with the lock taken.
C31_MutationsUnderLock ==
    [][ (\/ currentFightId' # currentFightId
         \/ lastActivityTime' # lastActivityTime
         \/ DOMAIN fights' # DOMAIN fights)
          => (locked \/ locked')
      ]_vars

\* C32: startNewFight releases the coordination lock before it hands the
\* 'new_fight_started' notification to the emitter: a step that hands one
\* over is never taken with the lock held.
C32_NotifiedOutsideLock ==
    [][ (/\ Len(emitQueue') = Len(emitQueue) + 1
         /\ emitQueue'[Len(emitQueue')].event = "new_fight_started")
          => ~locked
      ]_vars

\* C33: no deadlock on the coordination lock.  The lock is held exactly
\* while one startNewFight invocation is between its acquire() and its
\* release, on the error path too; the invocation that holds it can always
\* run to its end, finalization included, without taking the lock again; and
\* every invocation, queued or not, eventually acquires the lock and
\* completes.
C33_NoDeadlock ==
    /\ [](locked <=> resumable # <<>>)
    /\ [](Len(resumable) <= 1)
    /\ [](lockQueue # <<>> => locked)
    /\ [](resumable # <<>> => ENABLED (startNewFightResume \/ startNewFightThrows))
    /\ (Pending # <<>>) ~> (Pending = <<>>)

\* a startNewFight that threw has completed, the call queued behind it got
\* the lock and completed as well, and the lock is free
C33_Witness ==
    /\ FightId(100000001) \in Finalized(fights)
    /\ currentFightId \in Active(fights)
    /\ Pending = <<>>
    /\ ~locked
    /\ ops >= 2

\* C34: the current-encounter pointer is never inconsistent: in every
\* reachable state it is none or the id of an encounter that is in the Store
\* with isActive = TRUE, and every encounter with isActive = TRUE is the one
\* the pointer designates.
C34_PointerConsistent ==
    /\ currentFightId # NoFight => currentFightId \in Active(fights)
    /\ \A id \in Active(fights) : id = currentFightId

\* C35: liveness of the watchdog.  If an encounter is current and no further
\* recordActivity or forceStartNewFight call occurs, then under the repeated
\* checkForInactivity calls of the timer the current pointer eventually
\* becomes none, however the encounter was started.
C35_WatchdogEveryEncounter ==
    \A n \in 0..MaxOps :
        (currentFightId # NoFight /\ ops = n)
            ~> (currentFightId = NoFight \/ ops > n)

\* C35 amended: the same when lastActivityTime > 0, that is when an activity
\* was recorded since the manager was constructed or cleared.
C35_WatchdogAfterActivity ==
    \A n \in 0..MaxOps :
        (currentFightId # NoFight /\ lastActivityTime > 0 /\ ops = n)
            ~> (currentFightId = NoFight \/ ops > n)

\* the calls of the run are used up, the encounter that forceStartNewFight
\* started after an activity has been closed by the timer's watchdog
C35_Witness ==
    /\ ops = MaxOps
    /\ currentFightId = NoFight
    /\ lastActivityTime > 0
    /\ Pending = <<>>
    /\ FightId(15002) \in Finalized(fights)
    /\ emitQueue # <<>>
    /\ emitQueue[Len(emitQueue)] = FightEndedEvent(FightId(15002))

\* C36: each 'new_fight_started' message carries the id and the startTime of
\* the encounter whose creation caused it, whatever ran between the creation
\* and the delivery.
C36_MessageNamesItsEncounter ==
    \A i \in 1..Len(socket) :
        socket[i].event = "new_fight_started"
            => /\ socket[i].fightId = socket[i].cause
               /\ socket[i].startTime = socket[i].cause[2]

\* C37: one boundary produces one encounter: while a new-encounter transition
\* requested by recordActivity has not completed, a further recordActivity
\* whose timestamp lies within the timeout after that request's timestamp
\* requests no second transition.
C37_OneBoundaryOneEncounter ==
    [][ \A t \in Stamps, a \in Activities :
          (/\ recordActivity(t, a[1], a[2])
           /\ \E i \in 1..PendingCount :
                /\ Pending[i].src # "force"
                /\ t >= Pending[i].ts
                /\ t - Pending[i].ts <= fightTimeout)
            => Pending' = Pending
      ]_vars

\* the largest timestamp known to have been passed to recordActivity, in runs
\* where only recordActivity starts encounters: every startTime and every
\* pending request carries the timestamp of an activity
LargestRecorded ==
    LET seen == {lastActivityTime}
                  \cup {fights[id].startTime : id \in DOMAIN fights}
                  \cup {Pending[i].ts : i \in 1..PendingCount}
    IN  CHOOSE m \in seen : \A x \in seen : x <= m

\* C38: with an encounter current, recordActivity requests a new encounter
\* only when its timestamp exceeds the largest timestamp of all activities
\* recorded before by more than fightTimeout (stated for calls made while no
\* transition is pending).
C38_BoundaryAgainstLargest ==
    [][ \A t \in ValueStamps, a \in ValueActivities :
          (/\ recordActivity(t, a[1], a[2])
           /\ currentFightId # NoFight
           /\ Pending = <<>>
           /\ Pending' # <<>>)
            => t - LargestRecorded > fightTimeout
      ]_vars

\* C39: after clearHistory has returned, the Store stays empty and the
\* current pointer stays none as long as no recordActivity or
\* forceStartNewFight call is made, also when a new-encounter transition was
\* waiting on the lock when clearHistory ran.  In runs whose last call is
\* clearHistory: once that call is made, the Store is empty and nothing is
\* current.
C39_ClearedStaysEmpty ==
    ops = MaxOps => (fights = <<>> /\ currentFightId = NoFight)

====
